---- MODULE Spec2Model ----
(***************************************************************************)
(* Model of src/parse_circuit_file.cpp: parse_circuit_file scans a text    *)
(* file line by line into a CircuitInfo, and main prints the result.       *)
(*                                                                         *)
(* A character is a one-character string, a std::string is a sequence of   *)
(* characters, and a std::istringstream is a record [buf, good]: the       *)
(* characters not yet read and whether the stream is still good().         *)
(***************************************************************************)
EXTENDS Integers, Sequences, FiniteSets

VARIABLES pc, read, circuit_info, returned, cout, cerr

vars == <<pc, read, circuit_info, returned, cout, cerr>>

(***************************************************************************)
(* Bounds of the model.                                                    *)
(***************************************************************************)
\* Number of lines of a file under Spec.
MaxLines == 3
\* Number of lines of a file under SpecLine.
MaxProbeLines == 2

(***************************************************************************)
(* Characters and string literals of the source.                           *)
(***************************************************************************)
Digits == <<"0", "1", "2", "3", "4", "5", "6", "7", "8", "9">>

\* The four string literals the parser compares against or searches for.
TotalNodesKey == <<"T", "o", "t", "a", "l", "N", "o", "d", "e", "s">>
NodeDelaysKey == <<"N", "o", "d", "e", "D", "e", "l", "a", "y", "s">>
MaxClockCycleKey == <<"M", "a", "x", "C", "l", "o", "c", "k", "C", "y", "c", "l", "e">>
Blank == {" ", "\t"}

\* std::string::npos; npos + 1 wraps around to 0.
Npos == -1
NposPlusOne(i) == IF i = Npos THEN 0 ELSE i + 1

\* Mutant: the struct is left without its initializer.
DefaultInfoUnset ==
    [total_nodes |-> -1, node_delays |-> <<>>, edge_delays |-> <<>>,
     max_clock_cycle |-> -1]

\* CircuitInfo circuit_info = {0, {}, {}, 0};  edge_delays is a map, modelled
\* as a function whose domain is the set of keys present.
DefaultInfo ==
    [total_nodes |-> 0, node_delays |-> <<>>, edge_delays |-> <<>>,
     max_clock_cycle |-> 0]

(***************************************************************************)
(* std::string operations (0-based positions, as in the source).           *)
(***************************************************************************)
\* s.find_first_not_of(set)
FindFirstNotOf(s, set) ==
    IF \E i \in 1..Len(s) : s[i] \notin set
    THEN (CHOOSE i \in 1..Len(s) :
              s[i] \notin set /\ \A j \in 1..(i - 1) : s[j] \in set) - 1
    ELSE Npos

\* s.find_last_not_of(set)
FindLastNotOf(s, set) ==
    IF \E i \in 1..Len(s) : s[i] \notin set
    THEN (CHOOSE i \in 1..Len(s) :
              s[i] \notin set /\ \A j \in (i + 1)..Len(s) : s[j] \in set) - 1
    ELSE Npos

\* s.erase(pos, count): count is clamped to the characters left after pos
\* (npos clamps to all of them).
Erase(s, pos, count) ==
    LET n == IF count = Npos \/ count > Len(s) - pos THEN Len(s) - pos ELSE count
    IN  SubSeq(s, 1, pos) \o SubSeq(s, pos + n + 1, Len(s))

\* s.erase(pos): everything from pos on.
EraseFrom(s, pos) == SubSeq(s, 1, pos)

\* Mutant: only the leading blanks are erased.
TrimKeyLeading(key) == Erase(key, 0, FindFirstNotOf(key, Blank))

\* key.erase(0, key.find_first_not_of(" \t"));
\* key.erase(key.find_last_not_of(" \t") + 1);
TrimKey(key) ==
    LET k1 == Erase(key, 0, FindFirstNotOf(key, Blank))
    IN  EraseFrom(k1, NposPlusOne(FindLastNotOf(k1, Blank)))

(***************************************************************************)
(* std::getline(stream, str, delim) on a string stream.                    *)
(* Result: [ok, str, stream].  A stream that is not good() fails at once.  *)
(* Otherwise characters are taken up to the first delim, which is          *)
(* extracted and dropped; when the buffer ends first, eofbit is set, and   *)
(* when nothing at all was extracted, failbit is set too.                  *)
(***************************************************************************)
StreamOf(s) == [buf |-> s, good |-> TRUE]

Getline(stream, delim) ==
    IF ~stream.good
    THEN [ok |-> FALSE, str |-> <<>>, stream |-> stream]
    ELSE LET b == stream.buf
         IN  IF \E i \in 1..Len(b) : b[i] = delim
             THEN LET i == CHOOSE k \in 1..Len(b) :
                               b[k] = delim /\ \A j \in 1..(k - 1) : b[j] # delim
                  IN  [ok |-> TRUE, str |-> SubSeq(b, 1, i - 1),
                       stream |-> [buf |-> SubSeq(b, i + 1, Len(b)),
                                   good |-> TRUE]]
             ELSE [ok |-> Len(b) > 0, str |-> b,
                   stream |-> [buf |-> <<>>, good |-> FALSE]]

(***************************************************************************)
(* std::atoi: skip leading white space, take an optional sign, then the    *)
(* longest run of decimal digits; 0 when there is none.  The inputs of the *)
(* model hold at most a few digits, so the value always fits an int.       *)
(***************************************************************************)
IsDigit(c) == \E i \in 1..10 : Digits[i] = c
DigitVal(c) == (CHOOSE i \in 1..10 : Digits[i] = c) - 1
IsSpace(c) == c \in {" ", "\t", "\n", "\r"}

RECURSIVE SkipSpace(_)
SkipSpace(s) ==
    IF s # <<>> /\ IsSpace(Head(s)) THEN SkipSpace(Tail(s)) ELSE s

RECURSIVE DigitRun(_, _)
DigitRun(s, acc) ==
    IF s # <<>> /\ IsDigit(Head(s))
    THEN DigitRun(Tail(s), 10 * acc + DigitVal(Head(s)))
    ELSE acc

Atoi(s) ==
    LET t == SkipSpace(s)
    IN  IF t = <<>> THEN 0
        ELSE IF Head(t) = "-" THEN 0 - DigitRun(Tail(t), 0)
        ELSE IF Head(t) = "+" THEN DigitRun(Tail(t), 0)
        ELSE DigitRun(t, 0)

(***************************************************************************)
(* The body of the scanning loop.                                          *)
(***************************************************************************)
\* Mutant: an empty piece is dropped instead of pushed as 0.
RECURSIVE PushDelaysSkipEmpty(_, _)
PushDelaysSkipEmpty(ss, node_delays) ==
    LET r == Getline(ss, ",")
    IN  IF r.ok
        THEN PushDelaysSkipEmpty(r.stream,
                 IF r.str = <<>> THEN node_delays
                 ELSE Append(node_delays, Atoi(r.str)))
        ELSE node_delays

\* while (getline(ss, delay, ',')) node_delays.push_back(atoi(delay.c_str()));
RECURSIVE PushDelays(_, _)
PushDelays(ss, node_delays) ==
    LET r == Getline(ss, ",")
    IN  IF r.ok
        THEN PushDelays(r.stream, Append(node_delays, Atoi(r.str)))
        ELSE node_delays

\* Mutant: map::insert, which keeps the value of a key already present.
MapInsert(m, key, v) ==
    [k \in (DOMAIN m) \cup {key} |-> IF k \in DOMAIN m THEN m[k] ELSE v]

\* edge_delays[key] = v
MapStore(m, key, v) ==
    [k \in (DOMAIN m) \cup {key} |-> IF k = key THEN v ELSE m[k]]

\* Mutant: a NodeDelays line replaces the list instead of appending to it.
DispatchReplace(ci, key, value) ==
    IF key = TotalNodesKey
    THEN [ci EXCEPT !.total_nodes = Atoi(value)]
    ELSE IF key = NodeDelaysKey
    THEN [ci EXCEPT !.node_delays = PushDelays(StreamOf(value), <<>>)]
    ELSE IF key = MaxClockCycleKey
    THEN [ci EXCEPT !.max_clock_cycle = Atoi(value)]
    ELSE [ci EXCEPT !.edge_delays = MapStore(ci.edge_delays, key, Atoi(value))]

\* Mutant: the MaxClockCycle branch, copied from the TotalNodes branch,
\* still stores into total_nodes.
DispatchCopyPaste(ci, key, value) ==
    IF key = TotalNodesKey
    THEN [ci EXCEPT !.total_nodes = Atoi(value)]
    ELSE IF key = NodeDelaysKey
    THEN [ci EXCEPT !.node_delays = PushDelays(StreamOf(value), ci.node_delays)]
    ELSE IF key = MaxClockCycleKey
    THEN [ci EXCEPT !.total_nodes = Atoi(value)]
    ELSE [ci EXCEPT !.edge_delays = MapStore(ci.edge_delays, key, Atoi(value))]

\* The if / else-if chain on the trimmed key.
Dispatch(ci, key, value) ==
    IF key = TotalNodesKey
    THEN [ci EXCEPT !.total_nodes = Atoi(value)]
    ELSE IF key = NodeDelaysKey
    THEN [ci EXCEPT !.node_delays = PushDelays(StreamOf(value), ci.node_delays)]
    ELSE IF key = MaxClockCycleKey
    THEN [ci EXCEPT !.max_clock_cycle = Atoi(value)]
    ELSE [ci EXCEPT !.edge_delays = MapStore(ci.edge_delays, key, Atoi(value))]

\* Mutant: only a line starting with "//" is a comment.
IsSkippedDoubleSlash(line) ==
    line = <<>> \/ (Len(line) >= 2 /\ line[1] = "/" /\ line[2] = "/")

\* if (line.empty() || line[0] == '/') continue;
IsSkipped(line) == line = <<>> \/ line[1] = "/"

\* Mutant: the pair is dispatched as soon as the key was read, whether or
\* not a value follows.
ProcessLineKeyOnly(ci, line) ==
    IF IsSkipped(line) THEN ci
    ELSE LET k == Getline(StreamOf(line), "=")
             v == Getline(k.stream, "\n")
         IN  IF k.ok THEN Dispatch(ci, TrimKey(k.str), v.str) ELSE ci

\* One iteration of the loop on `line`: the CircuitInfo it leaves.
ProcessLine(ci, line) ==
    IF IsSkipped(line) THEN ci
    ELSE LET k == Getline(StreamOf(line), "=")
             v == Getline(k.stream, "\n")
         IN  IF k.ok /\ v.ok
             THEN Dispatch(ci, TrimKey(k.str), v.str)
             ELSE ci

(***************************************************************************)
(* Input files.  The environment supplies the lines; `read` records the    *)
(* lines getline(file, line) has returned so far, in file order.           *)
(***************************************************************************)
NameA == <<"A">>
NameB == <<"B">>

\* Lines of the form name=value, over the three reserved names and an edge
\* name, with an empty, a numeric, a non-numeric and a list value; a second
\* edge; an empty line, a comment and a line without '='.
FileValues == {<<>>, <<"5">>, <<"x">>, <<"7", ",", "2">>}
FileNames == {TotalNodesKey, NodeDelaysKey, MaxClockCycleKey, NameA}
FileLines ==
    {n \o <<"=">> \o v : n \in FileNames, v \in FileValues}
        \cup {NameB \o <<"=", "7", ",", "2">>,
              <<>>, <<"/">> \o TotalNodesKey \o <<"=", "9">>, NameA}

(***************************************************************************)
(* The program.                                                            *)
(***************************************************************************)
Init ==
    /\ pc = "start"
    /\ read = <<>>
    /\ circuit_info = DefaultInfo
    /\ returned = <<>>
    /\ cout = <<>>
    /\ cerr = <<>>

\* Mutant: the error is reported but exit() is missing, and the scan goes on.
OpenFailNoExit ==
    /\ pc = "start"
    /\ cerr' = Append(cerr, "Error opening file")
    /\ pc' = "scan"
    /\ UNCHANGED <<read, circuit_info, returned, cout>>

\* if (!file.is_open()) { cerr << "Error opening file"; exit(EXIT_FAILURE); }
OpenFail ==
    /\ pc = "start"
    /\ cerr' = Append(cerr, "Error opening file")
    /\ pc' = "exit_failure"
    /\ UNCHANGED <<read, circuit_info, returned, cout>>

\* The file opened: CircuitInfo circuit_info = {0, {}, {}, 0};
Open ==
    /\ pc = "start"
    /\ circuit_info' = DefaultInfo
    /\ pc' = "scan"
    /\ UNCHANGED <<read, returned, cout, cerr>>

\* getline(file, line) returned `line`: one iteration of the loop.
ScanLine(line, n) ==
    /\ pc = "scan"
    /\ Len(read) < n
    /\ read' = Append(read, line)
    /\ circuit_info' = ProcessLine(circuit_info, line)
    /\ UNCHANGED <<pc, returned, cout, cerr>>

\* getline(file, line) failed at the end of the file: file.close();
\* return circuit_info;  main's circuit_info receives the value.
Return ==
    /\ pc = "scan"
    /\ returned' = <<circuit_info>>
    /\ pc' = "returned"
    /\ UNCHANGED <<read, circuit_info, cout, cerr>>

\* main prints total_nodes, max_clock_cycle and node_delays, and returns 0.
MainPrint ==
    /\ pc = "returned"
    /\ cout' = << <<"Total Nodes: ", returned[1].total_nodes>>,
                  <<"Max Clock Cycle: ", returned[1].max_clock_cycle>>,
                  <<"Node Delays: ", returned[1].node_delays>> >>
    /\ pc' = "exit_0"
    /\ UNCHANGED <<read, circuit_info, returned, cerr>>

NextOver(lines, n) ==
    \/ OpenFail
    \/ Open
    \/ \E line \in lines : ScanLine(line, n)
    \/ Return
    \/ MainPrint

Next == NextOver(FileLines, MaxLines)

Spec == Init /\ [][Next]_vars

\* Lines that probe the syntax of one line: a lead (nothing, a blank, a
\* comment marker, '#', a blank before '/'), a name, and a tail with no '=',
\* an empty value, a numeric value, or a blank before '=' and a second '='.
ProbeLeads == {<<>>, <<" ">>, <<"/">>, <<"#">>, <<" ", "/">>}
ProbeNames == {TotalNodesKey, NameA, <<>>}
ProbeTails == {<<>>, <<"=">>, <<"=", "5">>, <<"\t", "=", "3", "=", "5">>}
SyntaxLines == {l \o n \o t : l \in ProbeLeads, n \in ProbeNames, t \in ProbeTails}

\* The two other reserved names, with blanks around the key.
KeyLines ==
    {<<"\t">> \o k \o <<" ", "=", "7">> : k \in {NodeDelaysKey, MaxClockCycleKey}}

\* NodeDelays lines: an empty value, a non-numeric piece, a trailing comma, a leading comma,
\* a lone comma, an empty piece in the middle, signs, a blank and a suffix.
DelayValues ==
    {<<>>, <<"1", ",", "x", ",", "3">>, <<"4", ",">>, <<",", "1">>, <<",">>,
     <<"1", ",", ",", "2">>, <<"-", "2", ",", "+", "3">>,
     <<" ", "6", ",", "7", "x">>}
DelayLines == {NodeDelaysKey \o <<"=">> \o v : v \in DelayValues}

ProbeLines == SyntaxLines \cup KeyLines \cup DelayLines

NextLine == NextOver(ProbeLines, MaxProbeLines)

SpecLine == Init /\ [][NextLine]_vars

(***************************************************************************)
(* The file format as the specification words it, stated on the text of a  *)
(* line and independently of the stream operations above.                  *)
(***************************************************************************)
Reserved == {TotalNodesKey, NodeDelaysKey, MaxClockCycleKey}

\* Position of the first '=' of a line, 0 when it has none.
FirstEq(line) ==
    IF \E i \in 1..Len(line) : line[i] = "="
    THEN CHOOSE i \in 1..Len(line) :
             line[i] = "=" /\ \A j \in 1..(i - 1) : line[j] # "="
    ELSE 0

HasEq(line) == FirstEq(line) > 0
KeyPart(line) == SubSeq(line, 1, FirstEq(line) - 1)
ValuePart(line) == SubSeq(line, FirstEq(line) + 1, Len(line))

RECURSIVE StripLeft(_)
StripLeft(s) ==
    IF s # <<>> /\ Head(s) \in Blank THEN StripLeft(Tail(s)) ELSE s

RECURSIVE StripRight(_)
StripRight(s) ==
    IF s # <<>> /\ s[Len(s)] \in Blank
    THEN StripRight(SubSeq(s, 1, Len(s) - 1))
    ELSE s

Strip(s) == StripRight(StripLeft(s))

\* The key a key=value line carries.
KeyOf(line) == Strip(KeyPart(line))

\* An empty line or a line whose first character is '/'.
Ignored(line) == Len(line) = 0 \/ Head(line) = "/"

\* A key=value line: not ignored, and with an '='.
KeyValueLine(line) == ~Ignored(line) /\ HasEq(line)

\* A key=value line with at least one character after the first '='.
ValuedLine(line) == KeyValueLine(line) /\ ValuePart(line) # <<>>

\* The pieces of a value between its commas (one more than it has commas).
RECURSIVE Pieces(_)
Pieces(v) ==
    IF \E i \in 1..Len(v) : v[i] = ","
    THEN LET i == CHOOSE k \in 1..Len(v) :
                      v[k] = "," /\ \A j \in 1..(k - 1) : v[j] # ","
         IN  <<SubSeq(v, 1, i - 1)>> \o Pieces(SubSeq(v, i + 1, Len(v)))
    ELSE <<v>>

Commas(v) == Cardinality({i \in 1..Len(v) : v[i] = ","})

\* The pieces that yield an element: all of them, but a trailing empty one.
YieldingPieces(v) ==
    LET p == Pieces(v)
    IN  IF p[Len(p)] = <<>> THEN SubSeq(p, 1, Len(p) - 1) ELSE p

\* The number a piece made of decimal digits only denotes.
RECURSIVE Decimal(_)
Decimal(s) ==
    IF s = <<>> THEN 0
    ELSE 10 * Decimal(SubSeq(s, 1, Len(s) - 1)) + DigitVal(s[Len(s)])

AllDigits(s) == s # <<>> /\ \A i \in 1..Len(s) : IsDigit(s[i])

\* The integers a NodeDelays value contributes.
DelayList(v) ==
    LET q == YieldingPieces(v) IN [i \in 1..Len(q) |-> Atoi(q[i])]

\* The lines read so far that pass `Sel` and carry key `k`.
LinesWith(Sel(_), k) ==
    {i \in 1..Len(read) : Sel(read[i]) /\ KeyOf(read[i]) = k}

MaxOf(S) == CHOOSE i \in S : \A j \in S : j <= i

\* The value a scalar or an edge holds when the last line of LinesWith wins.
LastValue(Sel(_), k) ==
    LET I == LinesWith(Sel, k)
    IN  IF I = {} THEN 0 ELSE Atoi(ValuePart(read[MaxOf(I)]))

\* The unrecognized keys of the lines read so far that pass `Sel`.
EdgeKeys(Sel(_)) ==
    {KeyOf(read[i]) : i \in {j \in 1..Len(read) : Sel(read[j])}} \ Reserved

\* parse_circuit_file has returned its CircuitInfo to main.
Finished == pc \in {"returned", "exit_0"}

\* No key=value line of the file carries one of the three recognized keys.
NoRecognizedKey == \A i \in 1..Len(read) :
    KeyValueLine(read[i]) => KeyOf(read[i]) \notin Reserved

(***************************************************************************)
(* C1 (as amended).  For every file with none of the three recognized      *)
(* keys, the result has total_nodes = 0, node_delays empty and             *)
(* max_clock_cycle = 0, and edge_delays holds exactly the keys of the      *)
(* file's key=value lines with a non-empty value: it is empty only when    *)
(* the file has no such line.                                              *)
(***************************************************************************)
C1_NoRecognizedKeys ==
    (Finished /\ NoRecognizedKey) =>
        /\ returned[1].total_nodes = 0
        /\ returned[1].node_delays = <<>>
        /\ returned[1].max_clock_cycle = 0
        /\ DOMAIN returned[1].edge_delays = EdgeKeys(ValuedLine)

\* C1 as claimed: such a file yields the default CircuitInfo, edge_delays
\* empty included.
C1_AsClaimed == (Finished /\ NoRecognizedKey) => returned[1] = DefaultInfo

\* A three-line file without recognized keys whose result has two edges.
C1_Witness ==
    /\ Finished
    /\ NoRecognizedKey
    /\ Len(read) = 3
    /\ DOMAIN returned[1].edge_delays = {NameA, NameB}

(***************************************************************************)
(* C3.  After scanning any file, node_delays is the concatenation, in file *)
(* order, of the integer lists of all NodeDelays lines: a later line       *)
(* appends to what the earlier ones contributed.                           *)
(***************************************************************************)
RECURSIVE ConcatDelays(_)
ConcatDelays(lines) ==
    IF lines = <<>> THEN <<>>
    ELSE (IF KeyValueLine(Head(lines)) /\ KeyOf(Head(lines)) = NodeDelaysKey
          THEN DelayList(ValuePart(Head(lines)))
          ELSE <<>>) \o ConcatDelays(Tail(lines))

C3_NodeDelaysConcatenate ==
    Finished => returned[1].node_delays = ConcatDelays(read)

\* NodeDelays=7,2 then another line then NodeDelays=5 gives [7,2,5].
C3_Witness ==
    /\ Finished
    /\ Len(read) = 3
    /\ read[1] = NodeDelaysKey \o <<"=", "7", ",", "2">>
    /\ read[3] = NodeDelaysKey \o <<"=", "5">>
    /\ returned[1].node_delays = <<7, 2, 5>>

(***************************************************************************)
(* C5 (as amended).  After scanning any file, edge_delays has exactly one  *)
(* entry per distinct unrecognized trimmed key that occurred in a          *)
(* key=value line with a non-empty value, and its value is the integer     *)
(* parsed from the last such line carrying that key.                       *)
(***************************************************************************)
C5_EdgeLastWriteWins ==
    Finished =>
        /\ DOMAIN returned[1].edge_delays = EdgeKeys(ValuedLine)
        /\ \A k \in EdgeKeys(ValuedLine) :
               returned[1].edge_delays[k] = LastValue(ValuedLine, k)

\* C5 as claimed: every key=value line counts, an empty value included.
C5_AsClaimed ==
    Finished =>
        /\ DOMAIN returned[1].edge_delays = EdgeKeys(KeyValueLine)
        /\ \A k \in EdgeKeys(KeyValueLine) :
               returned[1].edge_delays[k] = LastValue(KeyValueLine, k)

\* A=5, B=7,2, A=x: A was overwritten with 0 and B kept 7.
C5_Witness ==
    /\ Finished
    /\ read = <<NameA \o <<"=", "5">>, NameB \o <<"=", "7", ",", "2">>,
                NameA \o <<"=", "x">>>>
    /\ returned[1].edge_delays[NameA] = 0
    /\ returned[1].edge_delays[NameB] = 7

(***************************************************************************)
(* C6 (as amended).  After scanning any file, total_nodes is the integer   *)
(* parsed from the value of the last TotalNodes line with a non-empty      *)
(* value (0 if there is none), and max_clock_cycle likewise for            *)
(* MaxClockCycle: the last such occurrence wins, a non-numeric value       *)
(* yielding 0; a line with an empty value leaves the field as it was.      *)
(***************************************************************************)
C6_ScalarLastWins ==
    Finished =>
        /\ returned[1].total_nodes = LastValue(ValuedLine, TotalNodesKey)
        /\ returned[1].max_clock_cycle = LastValue(ValuedLine, MaxClockCycleKey)

\* C6 as claimed: the last occurrence wins also when its value is empty.
C6_AsClaimed ==
    Finished =>
        /\ returned[1].total_nodes = LastValue(KeyValueLine, TotalNodesKey)
        /\ returned[1].max_clock_cycle = LastValue(KeyValueLine, MaxClockCycleKey)

\* TotalNodes=5, MaxClockCycle=7,2, TotalNodes=x: the non-numeric last
\* occurrence wins.
C6_Witness ==
    /\ Finished
    /\ read = <<TotalNodesKey \o <<"=", "5">>,
                MaxClockCycleKey \o <<"=", "7", ",", "2">>,
                TotalNodesKey \o <<"=", "x">>>>
    /\ returned[1].total_nodes = 0
    /\ returned[1].max_clock_cycle = 7

(***************************************************************************)
(* C7.  If the file cannot be opened, the run ends in the open-failure     *)
(* outcome (error reported, exit with failure status) before any line is   *)
(* read, and no CircuitInfo is ever returned to main or printed.           *)
(***************************************************************************)
C7_OpenFailure ==
    /\ (pc = "exit_failure" \/ cerr # <<>>) =>
           /\ pc = "exit_failure"
           /\ cerr = <<"Error opening file">>
           /\ read = <<>>
           /\ returned = <<>>
           /\ cout = <<>>
           /\ ~ENABLED Next
    /\ (returned # <<>> \/ cout # <<>>) => cerr = <<>>

C7_Witness == pc = "exit_failure" /\ cerr # <<>>

(***************************************************************************)
(* Claims about one iteration of the loop.  A step that reads a line is    *)
(* the one that extends `read`; NewLine is the line it read.               *)
(***************************************************************************)
ScanStep == read' # read
NewLine == read'[Len(read')]

(***************************************************************************)
(* C2 (as amended).  For every non-empty line whose first character is not *)
(* '/': if it has an '=' followed by at least one character, it is split   *)
(* at the first '=' into key (the text before) and value (all the text     *)
(* after, further '=' included) and that pair is dispatched; if it has no  *)
(* '=', or nothing after its first '=' (as in `A=` or `TotalNodes=`), it   *)
(* is skipped and the CircuitInfo is unchanged.                            *)
(***************************************************************************)
C2_SplitAtFirstEq ==
    [][(ScanStep /\ ~Ignored(NewLine)) =>
           IF ValuedLine(NewLine)
           THEN circuit_info' =
                    Dispatch(circuit_info, KeyOf(NewLine), ValuePart(NewLine))
           ELSE circuit_info' = circuit_info]_vars

\* C2 as claimed: a line with an '=' is dispatched also when nothing follows
\* the '=', its value being parsed as 0.
C2_AsClaimed ==
    [][(ScanStep /\ ~Ignored(NewLine)) =>
           IF KeyValueLine(NewLine)
           THEN circuit_info' =
                    Dispatch(circuit_info, KeyOf(NewLine), ValuePart(NewLine))
           ELSE circuit_info' = circuit_info]_vars

\* `A<tab>=3=5` stored 3 under A (value "3=5"), and `A=` then changed nothing.
C2_Witness ==
    /\ pc = "scan"
    /\ read = <<NameA \o <<"\t", "=", "3", "=", "5">>, NameA \o <<"=">>>>
    /\ DOMAIN circuit_info.edge_delays = {NameA}
    /\ circuit_info.edge_delays[NameA] = 3

(***************************************************************************)
(* C4 (as amended).  For a single NodeDelays line, the value is split on   *)
(* every ',' and each resulting piece, except an empty piece at the very   *)
(* end (a value that is empty or ends in ','), appends exactly one element *)
(* to node_delays at its position: the integer it denotes when the piece   *)
(* is numeric, and 0 when it fails to parse (non-numeric or empty piece).  *)
(* The number of appended elements is the number of commas + 1, less one   *)
(* when the value is empty or ends in ','.                                 *)
(***************************************************************************)
FailsToParse(piece) ==
    piece = <<>> \/ ~(IsDigit(piece[1]) \/ piece[1] \in {"+", "-", " ", "\t"})

C4_OneElementPerPiece ==
    [][(ScanStep /\ KeyValueLine(NewLine) /\ KeyOf(NewLine) = NodeDelaysKey) =>
           LET v == ValuePart(NewLine)
               q == YieldingPieces(v)
               n == Len(circuit_info.node_delays)
               new == circuit_info'.node_delays
           IN  /\ Len(new) = n + Len(q)
               /\ SubSeq(new, 1, n) = circuit_info.node_delays
               /\ \A i \in 1..Len(q) :
                      /\ new[n + i] = Atoi(q[i])
                      /\ AllDigits(q[i]) => new[n + i] = Decimal(q[i])
                      /\ FailsToParse(q[i]) => new[n + i] = 0
               /\ Len(q) = Commas(v) + 1
                             - (IF v = <<>> \/ v[Len(v)] = "," THEN 1 ELSE 0)]_vars

\* C4 as claimed: every piece appends, so commas + 1 elements are appended.
C4_AsClaimed ==
    [][(ScanStep /\ KeyValueLine(NewLine) /\ KeyOf(NewLine) = NodeDelaysKey) =>
           LET v == ValuePart(NewLine)
               p == Pieces(v)
               n == Len(circuit_info.node_delays)
               new == circuit_info'.node_delays
           IN  /\ Len(new) = n + Commas(v) + 1
               /\ SubSeq(new, 1, n) = circuit_info.node_delays
               /\ \A i \in 1..Len(p) : new[n + i] = Atoi(p[i])]_vars

\* NodeDelays=1,x,3 gave [1,0,3], and NodeDelays=4, then appended 4 alone.
C4_Witness ==
    /\ pc = "scan"
    /\ read = <<NodeDelaysKey \o <<"=", "1", ",", "x", ",", "3">>,
                NodeDelaysKey \o <<"=", "4", ",">>>>
    /\ circuit_info.node_delays = <<1, 0, 3, 4>>

(***************************************************************************)
(* C8.  A line whose first character is '#' is a comment: it is ignored    *)
(* and leaves the CircuitInfo unchanged, even when it contains '='.        *)
(***************************************************************************)
C8_HashIsComment ==
    [][(ScanStep /\ NewLine # <<>> /\ NewLine[1] = "#") =>
           circuit_info' = circuit_info]_vars

(***************************************************************************)
(* C9.  An empty line and any line whose first character is '/' leave all  *)
(* four fields unchanged; only the first character is tested, so a line    *)
(* with a blank before '/' (such as ` /x=1`) is not a comment: it is       *)
(* dispatched, and stores its value under its key, which starts with '/'.  *)
(***************************************************************************)
C9_FirstCharacterComment ==
    [][ScanStep =>
           /\ Ignored(NewLine) => circuit_info' = circuit_info
           /\ (/\ Len(NewLine) >= 2
               /\ NewLine[1] \in Blank
               /\ NewLine[2] = "/"
               /\ ValuedLine(NewLine)) =>
                  /\ Head(KeyOf(NewLine)) = "/"
                  /\ KeyOf(NewLine) \in DOMAIN circuit_info'.edge_delays
                  /\ circuit_info'.edge_delays[KeyOf(NewLine)] =
                         Atoi(ValuePart(NewLine))]_vars

\* ` /A=5` stored 5 under /A, and the comment `/TotalNodes=5` after it
\* changed nothing.
C9_Witness ==
    /\ pc = "scan"
    /\ read = <<<<" ", "/">> \o NameA \o <<"=", "5">>,
                <<"/">> \o TotalNodesKey \o <<"=", "5">>>>
    /\ DOMAIN circuit_info.edge_delays = {<<"/">> \o NameA}
    /\ circuit_info.edge_delays[<<"/">> \o NameA] = 5
    /\ circuit_info.total_nodes = 0

(***************************************************************************)
(* C10.  Dispatch uses the key with its leading and trailing spaces and    *)
(* tabs removed, and each dispatched line modifies exactly one field: the  *)
(* one of its reserved key, or else the edge_delays entry of its trimmed   *)
(* key.  So no key of edge_delays is ever a reserved name, starts or ends  *)
(* with a space or tab, or contains '='.                                   *)
(***************************************************************************)
EdgeKeysClean ==
    \A k \in DOMAIN circuit_info.edge_delays :
        /\ k \notin Reserved
        /\ k # <<>> => (k[1] \notin Blank /\ k[Len(k)] \notin Blank)
        /\ \A i \in 1..Len(k) : k[i] # "="

OneFieldChanges ==
    (ScanStep /\ ValuedLine(NewLine)) =>
        LET k == KeyOf(NewLine)
            old == circuit_info
            new == circuit_info'
        IN  /\ k # TotalNodesKey => new.total_nodes = old.total_nodes
            /\ k # NodeDelaysKey => new.node_delays = old.node_delays
            /\ k # MaxClockCycleKey => new.max_clock_cycle = old.max_clock_cycle
            /\ k \in Reserved => new.edge_delays = old.edge_delays
            /\ k \notin Reserved =>
                   /\ DOMAIN new.edge_delays = DOMAIN old.edge_delays \cup {k}
                   /\ \A e \in DOMAIN old.edge_delays :
                          e # k => new.edge_delays[e] = old.edge_delays[e]

C10_TrimmedKeyOneField == []EdgeKeysClean /\ [][OneFieldChanges]_vars

\* A blank-only key became the empty key, and `<tab>NodeDelays =7` then
\* appended to node_delays and left that edge alone.
C10_Witness ==
    /\ pc = "scan"
    /\ read = << <<" ", "=", "5">>, <<"\t">> \o NodeDelaysKey \o <<" ", "=", "7">> >>
    /\ DOMAIN circuit_info.edge_delays = {<<>>}
    /\ circuit_info.edge_delays[<<>>] = 5
    /\ circuit_info.node_delays = <<7>>

====
